---- MODULE Spec2Model ----
(***************************************************************************)
(* A model of src/src/mrujs.ts: the plugin lifecycle (start, stop,         *)
(* restart, connect, disconnect), the mutation dispatch (addedNodesCallback *)
(* and its zero-delay timers) and the registries (appendToQuerySelector,    *)
(* registerMimeTypes, registerConfirm).                                     *)
(*                                                                          *)
(* JavaScript strings are sequences of tokens; an optional value is a       *)
(* record [def, v]; objects that the code shares by reference (the selector *)
(* entries) live in a heap indexed by object id.                            *)
(***************************************************************************)
EXTENDS Integers, Sequences, FiniteSets, TLC

\* ------------------------------------------------------------- bounds
MaxCalls == 3          \* lifecycle calls (start, stop, restart) in one run
MaxAppends == 2        \* registry calls that append (appendToQuerySelector, registerConfirm)
MaxRegistrations == 2  \* registerMimeTypes calls
MaxBatches == 2        \* mutation batches delivered to addedNodesCallback
MaxMimeList == 2       \* entries in one registerMimeTypes list

\* ------------------------------------------------------------- values
Some(x) == [def |-> TRUE, v |-> x]
Undefined == [def |-> FALSE, v |-> <<>>]

\* String(x) of a template literal: the string itself, or "undefined"
StringOf(o) == IF o.def THEN o.v ELSE <<"undefined">>

Instances == {1, 2}
NoInstance == 0

\* ------------------------------------------------------------- plugins
addedNodesObserver(i) == 100 * i + 1
remoteWatcher(i) == 100 * i + 2
csrf(i) == 100 * i + 3
elementEnabler(i) == 100 * i + 4
clickHandler(i) == 100 * i + 5
disabledElementChecker(i) == 100 * i + 6
confirmClass(i) == 100 * i + 7
elementDisabler(i) == 100 * i + 8
method(i) == 100 * i + 9
formSubmitDispatcher(i) == 100 * i + 10
navigationAdapter(i) == 100 * i + 11

\* Order matters here!
corePlugins(i) ==
  << addedNodesObserver(i), remoteWatcher(i), csrf(i), elementEnabler(i),
     clickHandler(i), disabledElementChecker(i), confirmClass(i),
     elementDisabler(i), method(i), formSubmitDispatcher(i),
     navigationAdapter(i) >>

\* plugins supplied by the embedding application
ExtensionPlugins == {1, 2}
ExtensionLists == { <<>>, <<1>>, <<1, 1>>, <<2, 1>> }

Range(s) == { s[i] : i \in 1..Len(s) }

Plugins == ExtensionPlugins \cup UNION { Range(corePlugins(i)) : i \in Instances }

concat_mut_order(core, ext) == ext \o core

\* Array.prototype.concat
concat(core, ext) == core \o ext

\* ------------------------------------------------------------- selectors
Keys == {"formEnableSelector", "linkDisableSelector", "linkClickSelector", "buttonClickSelector"}

KeyIndex(k) ==
  CASE k = "formEnableSelector" -> 1
    [] k = "linkDisableSelector" -> 2
    [] k = "linkClickSelector" -> 3
    [] k = "buttonClickSelector" -> 4

\* the selector entry objects of BASE_SELECTORS, and those of a selector map
\* that a caller passes to start()
BaseObject(k) == KeyIndex(k)
CallerObject(k) == 10 + KeyIndex(k)
SelectorObjects == { BaseObject(k) : k \in Keys } \cup { CallerObject(k) : k \in Keys }

BASE_SELECTORS == [k \in Keys |-> BaseObject(k)]
CallerSelectors == [k \in Keys |-> CallerObject(k)]

InitialSelectorObjects ==
  [o \in SelectorObjects |->
     IF o < 10
     THEN [selector |-> <<"base">>, exclude |-> Some(<<"ignore">>)]
     ELSE [selector |-> <<"caller">>, exclude |-> Undefined]]

\* ------------------------------------------------------------- mime types
Shortcuts == {"any", "json", "xml"}
BASE_ACCEPT_HEADERS ==
  [s \in Shortcuts |->
     IF s = "any" THEN Some("*/*")
     ELSE IF s = "json" THEN Some("application/json")
     ELSE Undefined]
CallerMimeTypes ==
  [s \in Shortcuts |-> IF s = "xml" THEN Some("application/xml") ELSE Undefined]

\* ------------------------------------------------------------- configuration
\* a Partial<MrujsConfigInterface>: every field optional
Configs ==
  { [maskLinkMethods |-> m, querySelectors |-> q, mimeTypes |-> t, plugins |-> p] :
      m \in {Undefined},
      q \in {Undefined},
      t \in {Undefined},
      p \in {Undefined} \cup { Some(l) : l \in ExtensionLists } }
  \cup
  { [maskLinkMethods |-> Some(FALSE), querySelectors |-> Some(CallerSelectors),
     mimeTypes |-> Some(CallerMimeTypes), plugins |-> p] :
      p \in {Undefined, Some(<<2>>)} }

\* { ...a, ...b } on configuration objects
Merge(a, b) ==
  [f \in DOMAIN a |-> IF b[f].def THEN b[f].v ELSE a[f]]

VARIABLES
  windowMrujs,        \* window.mrujs (= window.Rails): an instance or NoInstance
  connected,          \* obj.connected, per instance
  plugins,            \* obj.plugins, per instance
  allPlugins,         \* obj.allPlugins, per instance
  config,             \* obj.config, per instance
  selectorObjects,    \* the selector entry objects {selector, exclude}
  callbacks,          \* obj.confirmClass.callbacks, per instance
  observing,          \* whether the instance's MutationObserver observes
  pageshowListeners,  \* the listeners of window's 'pageshow' event
  timers,             \* the pending window.setTimeout(..., 0) tasks, oldest first
  initCount,          \* invocations of initialize(), per plugin
  connCount,          \* invocations of connect(), per plugin
  discCount,          \* invocations of disconnect(), per plugin
  calls,              \* what the last operation did, in order
  last,               \* the last operation: name, receiver, input, outcome
  nCalls, nAppends, nRegistrations, nBatches

vars ==
  << windowMrujs, connected, plugins, allPlugins, config, selectorObjects,
     callbacks, observing, pageshowListeners, timers, initCount, connCount,
     discCount, calls, last, nCalls, nAppends, nRegistrations, nBatches >>

\* ------------------------------------------------------------- construction
DefaultConfig(objPlugins) ==
  [maskLinkMethods |-> TRUE, querySelectors |-> BASE_SELECTORS,
   mimeTypes |-> BASE_ACCEPT_HEADERS, plugins |-> objPlugins]

NoCall ==
  [op |-> "none", this |-> NoInstance, arg |-> <<>>, wasConnected |-> FALSE,
   threw |-> FALSE, ret |-> Undefined]

\* Mrujs(obj): the state after the instances are constructed; obj.plugins is
\* the caller's, or [] when the caller gives none
Mrujs(objPlugins) ==
  /\ windowMrujs = NoInstance
  /\ connected = [i \in Instances |-> FALSE]
  /\ plugins = objPlugins
  /\ allPlugins = [i \in Instances |-> concat(corePlugins(i), objPlugins[i])]
  /\ config = [i \in Instances |-> DefaultConfig(objPlugins[i])]
  /\ selectorObjects = InitialSelectorObjects
  /\ callbacks = [i \in Instances |-> <<>>]
  /\ observing = [i \in Instances |-> FALSE]
  /\ pageshowListeners = {}
  /\ timers = <<>>
  /\ initCount = [p \in Plugins |-> 0]
  /\ connCount = [p \in Plugins |-> 0]
  /\ discCount = [p \in Plugins |-> 0]
  /\ calls = <<>>
  /\ last = NoCall
  /\ nCalls = 0
  /\ nAppends = 0
  /\ nRegistrations = 0
  /\ nBatches = 0

Init ==
  \E first \in {<<>>, <<1>>} : Mrujs([i \in Instances |-> IF i = 1 THEN first ELSE <<>>])

\* ------------------------------------------------------------- hook passes
Event(ev, p, arg) == [ev |-> ev, p |-> p, arg |-> arg]

\* which hook throws in a lifecycle call: the hook named `hook` of the plugin
\* at registry position `pos`, or none
NoFail == [hook |-> "none", pos |-> 0]

Reached_mut_continue(hook, all, fail) == Len(all)

Throws(hook, all, fail) == fail.hook = hook /\ fail.pos \in 1..Len(all)

\* for (let i = 0; i < allPlugins.length; i++) allPlugins[i].hook?.():
\* the number of plugins whose hook is invoked, the throwing one included
Reached(hook, all, fail) == IF Throws(hook, all, fail) THEN fail.pos ELSE Len(all)

HookCalls_mut_reverse(hook, all, n) ==
  [i \in 1..n |-> Event(hook, all[Len(all) + 1 - i], <<>>)]

HookCalls(hook, all, n) == [i \in 1..n |-> Event(hook, all[i], <<>>)]

Bump(count, all, n) ==
  [p \in Plugins |-> count[p] + Cardinality({ i \in 1..n : all[i] = p })]

\* the added-nodes observer's connect() starts its MutationObserver and its
\* disconnect() stops it
Observe(obs, all, n, value) ==
  [j \in Instances |->
     IF \E i \in 1..n : all[i] = addedNodesObserver(j) THEN value ELSE obs[j]]

\* the part of the state that a lifecycle call changes
Lifecycle ==
  [connected |-> connected, listeners |-> pageshowListeners,
   initCount |-> initCount, connCount |-> connCount, discCount |-> discCount,
   observing |-> observing, calls |-> <<>>, threw |-> FALSE]

\* window.mrujs as the code reads it: the instance, its registry, its selectors
Window(w, all, selectors) == [id |-> w, allPlugins |-> all, querySelectors |-> selectors]

CurrentWindow ==
  Window(windowMrujs, allPlugins[windowMrujs], config[windowMrujs].querySelectors)

reEnableDisabledElements(selectors) ==
  Event("reEnableDisabledElements", 0,
        selectorObjects[selectors["formEnableSelector"]].selector \o <<", ">>
          \o selectorObjects[selectors["linkDisableSelector"]].selector)

initialize(L, all, fail) ==
  LET n == Reached("initialize", all, fail)
  IN [L EXCEPT !.calls = @ \o HookCalls("initialize", all, n),
               !.initCount = Bump(@, all, n),
               !.threw = Throws("initialize", all, fail)]

connect_mut_flag(L, W, fail) ==
  LET n == Reached("connect", W.allPlugins, fail)
  IN [L EXCEPT !.calls = @ \o <<reEnableDisabledElements(W.querySelectors),
                                 Event("addEventListener", 0, <<"pageshow">>)>>
                           \o HookCalls("connect", W.allPlugins, n),
               !.listeners = @ \cup {"reEnableDisabledElements"},
               !.connCount = Bump(@, W.allPlugins, n)]

connect(L, W, fail) ==
  LET all == W.allPlugins
      n == Reached("connect", all, fail)
      threw == Throws("connect", all, fail)
      L1 == [L EXCEPT !.calls = @ \o <<reEnableDisabledElements(W.querySelectors),
                                       Event("addEventListener", 0, <<"pageshow">>)>>
                                 \o HookCalls("connect", all, n),
                      !.listeners = @ \cup {"reEnableDisabledElements"},
                      !.connCount = Bump(@, all, n),
                      !.observing = Observe(@, all, IF threw THEN n - 1 ELSE n, TRUE)]
  IN IF threw
     THEN [L1 EXCEPT !.threw = TRUE]
     ELSE [L1 EXCEPT !.connected = [@ EXCEPT ![W.id] = TRUE],
                     !.calls = @ \o <<Event("connected", 0, <<"true">>)>>]

disconnect_mut_keep(L, W, fail) ==
  LET all == W.allPlugins
      n == Reached("disconnect", all, fail)
  IN [L EXCEPT !.calls = @ \o HookCalls("disconnect", all, n)
                           \o <<Event("connected", 0, <<"false">>)>>,
               !.discCount = Bump(@, all, n),
               !.observing = Observe(@, all, n, FALSE),
               !.connected = [@ EXCEPT ![W.id] = FALSE]]

disconnect(L, W, fail) ==
  LET all == W.allPlugins
      n == Reached("disconnect", all, fail)
      threw == Throws("disconnect", all, fail)
      L1 == [L EXCEPT !.calls = @ \o <<Event("removeEventListener", 0, <<"pageshow">>)>>
                                 \o HookCalls("disconnect", all, n),
                      !.listeners = @ \ {"reEnableDisabledElements"},
                      !.discCount = Bump(@, all, n),
                      !.observing = Observe(@, all, IF threw THEN n - 1 ELSE n, FALSE)]
  IN IF threw
     THEN [L1 EXCEPT !.threw = TRUE]
     ELSE [L1 EXCEPT !.connected = [@ EXCEPT ![W.id] = FALSE],
                     !.calls = @ \o <<Event("connected", 0, <<"false">>)>>]

\* disconnect() when window.mrujs is undefined: the listener is removed, then
\* reading window.mrujs.allPlugins throws a TypeError
disconnectUndefined(L) ==
  [L EXCEPT !.calls = @ \o <<Event("removeEventListener", 0, <<"pageshow">>)>>,
            !.listeners = @ \ {"reEnableDisabledElements"},
            !.threw = TRUE]

\* writes a lifecycle call's outcome back to the state
Commit(L) ==
  /\ connected' = L.connected
  /\ pageshowListeners' = L.listeners
  /\ initCount' = L.initCount
  /\ connCount' = L.connCount
  /\ discCount' = L.discCount
  /\ observing' = L.observing
  /\ calls' = L.calls

Call(op, this, arg, was, threw, ret) ==
  [op |-> op, this |-> this, arg |-> arg, wasConnected |-> was, threw |-> threw,
   ret |-> ret]

\* ------------------------------------------------------------- lifecycle
\* what a lifecycle call is given: its argument, and the hook that throws
\* while it runs (none when every hook returns)
Input(arg, fail) == arg @@ [fail |-> fail]

alreadyConnected_mut_never(this) == FALSE

\* window.mrujs.connected, read right after window.mrujs = this
alreadyConnected(this) == connected[this]

start(this, cfg, fail) ==
  /\ nCalls < MaxCalls
  /\ nCalls' = nCalls + 1
  /\ windowMrujs' = this
  /\ IF alreadyConnected(this)
     THEN \* Dont start twice!
          /\ Commit(Lifecycle)
          /\ UNCHANGED << config, plugins, allPlugins >>
          /\ last' = Call("start", this, Input(cfg, fail), TRUE, FALSE, Some(this))
     ELSE LET newConfig == Merge(config[this], cfg)
              all == concat(corePlugins(this), newConfig.plugins)
              L1 == initialize(Lifecycle, all, fail)
              L2 == IF L1.threw THEN L1
                    ELSE connect(L1, Window(this, all, newConfig.querySelectors), fail)
          IN /\ config' = [config EXCEPT ![this] = newConfig]
             /\ plugins' = [plugins EXCEPT ![this] = newConfig.plugins]
             /\ allPlugins' = [allPlugins EXCEPT ![this] = all]
             /\ Commit(L2)
             /\ last' = Call("start", this, Input(cfg, fail), FALSE, L2.threw,
                             IF L2.threw THEN Undefined ELSE Some(this))
  /\ UNCHANGED << selectorObjects, callbacks, timers, nAppends, nRegistrations, nBatches >>

stop(this, fail) ==
  /\ nCalls < MaxCalls
  /\ nCalls' = nCalls + 1
  /\ LET L == IF windowMrujs = NoInstance THEN disconnectUndefined(Lifecycle)
              ELSE disconnect(Lifecycle, CurrentWindow, fail)
     IN /\ Commit(L)
        /\ last' = Call("stop", this, [fail |-> fail],
                        windowMrujs # NoInstance /\ connected[windowMrujs],
                        L.threw, Undefined)
  /\ UNCHANGED << windowMrujs, config, plugins, allPlugins, selectorObjects, callbacks,
                  timers, nAppends, nRegistrations, nBatches >>

restart(this, fail) ==
  /\ nCalls < MaxCalls
  /\ nCalls' = nCalls + 1
  /\ LET L1 == IF windowMrujs = NoInstance THEN disconnectUndefined(Lifecycle)
               ELSE disconnect(Lifecycle, CurrentWindow, fail)
         L2 == IF L1.threw THEN L1 ELSE connect(L1, CurrentWindow, fail)
     IN /\ Commit(L2)
        /\ last' = Call("restart", this, [fail |-> fail],
                        windowMrujs # NoInstance /\ connected[windowMrujs],
                        L2.threw, Undefined)
  /\ UNCHANGED << windowMrujs, config, plugins, allPlugins, selectorObjects, callbacks,
                  timers, nAppends, nRegistrations, nBatches >>

\* the embedding application replaces the extension list of an instance:
\* obj.plugins = obj.config.plugins = list
setPlugins(this, list) ==
  /\ list # plugins[this]
  /\ plugins' = [plugins EXCEPT ![this] = list]
  /\ config' = [config EXCEPT ![this].plugins = list]
  /\ calls' = <<>>
  /\ last' = Call("setPlugins", this, [plugins |-> list], connected[this], FALSE,
                  Undefined)
  /\ UNCHANGED << windowMrujs, connected, allPlugins, selectorObjects, callbacks,
                  observing, pageshowListeners, timers, initCount, connCount, discCount,
                  nCalls, nAppends, nRegistrations, nBatches >>

\* the browser fires 'pageshow': every subscribed listener runs
pageshow ==
  /\ pageshowListeners # {}
  /\ windowMrujs # NoInstance
  /\ calls' = <<reEnableDisabledElements(config[windowMrujs].querySelectors)>>
  /\ last' = Call("pageshow", NoInstance, <<>>, connected[windowMrujs], FALSE, Undefined)
  /\ UNCHANGED << windowMrujs, connected, plugins, allPlugins, config, selectorObjects,
                  callbacks, observing, pageshowListeners, timers, initCount, connCount,
                  discCount, nCalls, nAppends, nRegistrations, nBatches >>

\* ------------------------------------------------------------- registries
SelectorKeys == {"linkClickSelector", "doesNotExist"}
SelectorArgs ==
  { [selector |-> a, exclude |-> b] :
      a \in {Undefined, Some(<<"x">>), Some(<<"y">>)}, b \in {Undefined, Some(<<"x">>)} }

\* Object.keys(querySelectors).includes(key)
includes(querySelectors, key) == key \in DOMAIN querySelectors

appendString_mut_replace(s, t) == t

\* s += `, ${t}`
appendString(s, t) == s \o <<", ">> \o t

\* the selector entry objects after appendToQuerySelector(key, arg) on the
\* selector map `querySelectors`
appended(objects, querySelectors, key, arg) ==
  IF includes(querySelectors, key)
  THEN LET o == querySelectors[key]
           e == objects[o]
           e1 == IF arg.selector.def
                 THEN [e EXCEPT !.selector = appendString(@, arg.selector.v)]
                 ELSE e
           e2 == IF arg.exclude.def
                 THEN [e1 EXCEPT !.exclude = Some(appendString(StringOf(@), arg.exclude.v))]
                 ELSE e1
       IN [objects EXCEPT ![o] = e2]
  ELSE objects

appendToQuerySelector(this, key, arg) ==
  /\ nAppends < MaxAppends
  /\ nAppends' = nAppends + 1
  /\ calls' = <<>>
  /\ IF windowMrujs = NoInstance
     THEN \* const { querySelectors } = window.mrujs throws a TypeError
          /\ last' = Call("appendToQuerySelector", this, [key |-> key, arg |-> arg],
                          FALSE, TRUE, Undefined)
          /\ UNCHANGED selectorObjects
     ELSE /\ selectorObjects' =
               appended(selectorObjects, config[windowMrujs].querySelectors, key, arg)
          /\ last' = Call("appendToQuerySelector", this, [key |-> key, arg |-> arg],
                          connected[windowMrujs], FALSE, Undefined)
  /\ UNCHANGED << windowMrujs, connected, plugins, allPlugins, config, callbacks,
                  observing, pageshowListeners, timers, initCount, connCount, discCount,
                  nCalls, nRegistrations, nBatches >>

Attributes == {"data-confirm"}
Callbacks == {"cb1", "cb2"}

registerConfirm(this, attribute, callback) ==
  /\ nAppends < MaxAppends
  /\ nAppends' = nAppends + 1
  /\ calls' = <<>>
  /\ IF windowMrujs = NoInstance
     THEN /\ last' = Call("registerConfirm", this,
                          [attribute |-> attribute, callback |-> callback],
                          FALSE, TRUE, Undefined)
          /\ UNCHANGED << selectorObjects, callbacks >>
     ELSE LET qs == config[windowMrujs].querySelectors
              o1 == appended(selectorObjects, qs, "buttonClickSelector",
                             [selector |-> Some(<<"a[", attribute, "]">>),
                              exclude |-> Undefined])
              o2 == appended(o1, qs, "linkClickSelector",
                             [selector |-> Some(<<"button[", attribute, "]:not([form])">>),
                              exclude |-> Undefined])
          IN /\ selectorObjects' = o2
             /\ callbacks' = [callbacks EXCEPT ![windowMrujs] = Append(@, callback)]
             /\ last' = Call("registerConfirm", this,
                             [attribute |-> attribute, callback |-> callback],
                             connected[windowMrujs], FALSE, Undefined)
  /\ UNCHANGED << windowMrujs, connected, plugins, allPlugins, config, observing,
                  pageshowListeners, timers, initCount, connCount, discCount,
                  nCalls, nRegistrations, nBatches >>

MimeEntries ==
  { [shortcut |-> "json", header |-> "application/vnd.api+json"],
    [shortcut |-> "json", header |-> "text/json"],
    [shortcut |-> "xml", header |-> "text/xml"] }

RECURSIVE SeqsUpTo(_, _)
SeqsUpTo(S, n) ==
  IF n = 0 THEN { <<>> }
  ELSE SeqsUpTo(S, n - 1) \cup { Append(l, x) : l \in SeqsUpTo(S, n - 1), x \in S }

MimeLists == SeqsUpTo(MimeEntries, MaxMimeList)

\* mimeTypes.forEach(...): customMimeTypes[shortcut] = header, entry by entry
RECURSIVE forEach(_, _, _)
forEach(mimeTypes, i, customMimeTypes) ==
  IF i > Len(mimeTypes) THEN customMimeTypes
  ELSE forEach(mimeTypes, i + 1,
               [customMimeTypes EXCEPT ![mimeTypes[i].shortcut] = Some(mimeTypes[i].header)])

spread_mut_keep(old, custom) == [s \in Shortcuts |-> IF old[s].def THEN old[s] ELSE custom[s]]

\* { ...old, ...custom }
spread(old, custom) == [s \in Shortcuts |-> IF custom[s].def THEN custom[s] ELSE old[s]]

registerMimeTypes(this, mimeTypes) ==
  /\ nRegistrations < MaxRegistrations
  /\ nRegistrations' = nRegistrations + 1
  /\ calls' = <<>>
  /\ IF windowMrujs = NoInstance
     THEN \* window.mrujs.config throws a TypeError
          /\ last' = Call("registerMimeTypes", this, mimeTypes, FALSE, TRUE, Undefined)
          /\ UNCHANGED config
     ELSE LET customMimeTypes == forEach(mimeTypes, 1, [s \in Shortcuts |-> Undefined])
              merged == spread(config[windowMrujs].mimeTypes, customMimeTypes)
          IN /\ config' = [config EXCEPT ![windowMrujs].mimeTypes = merged]
             /\ last' = Call("registerMimeTypes", this, mimeTypes,
                             connected[windowMrujs], FALSE, Some(merged))
  /\ UNCHANGED << windowMrujs, connected, plugins, allPlugins, selectorObjects, callbacks,
                  observing, pageshowListeners, timers, initCount, connCount, discCount,
                  nCalls, nAppends, nBatches >>

\* ------------------------------------------------------------- mutation dispatch
Nodes == {"N", "A", "B"}
AttributeChange == [type |-> "attributes", target |-> "N", addedNodes |-> <<>>]
Insertion == [type |-> "childList", target |-> "N", addedNodes |-> <<"A", "B">>]
Removal == [type |-> "childList", target |-> "A", addedNodes |-> <<>>]

\* the batches of records that the MutationObserver delivers
MutationLists ==
  { <<AttributeChange>>, <<Insertion>>, <<Removal>>, <<AttributeChange, Insertion>>,
    <<Insertion, AttributeChange>> }

affected_mut_added(mutation) == mutation.addedNodes

\* the node list of one mutation record
affected(mutation) ==
  IF mutation.type = "attributes" THEN <<mutation.target>> ELSE mutation.addedNodes

\* the task that window.setTimeout queues for one record: its closure holds
\* addedNodes; `mutation` remembers the record it was made for
Task(mutation) == [addedNodes |-> affected(mutation), mutation |-> mutation]

addedNodesCallback_mut_sync(mutationList) ==
  /\ \E i \in Instances : observing[i]
  /\ nBatches < MaxBatches
  /\ nBatches' = nBatches + 1
  /\ calls' = [i \in 1..Len(allPlugins[windowMrujs]) |->
                 Event("observerCallback", allPlugins[windowMrujs][i],
                       affected(mutationList[1]))]
  /\ last' = Call("addedNodesCallback", NoInstance, mutationList,
                  windowMrujs # NoInstance /\ connected[windowMrujs], FALSE, Undefined)
  /\ UNCHANGED << windowMrujs, connected, plugins, allPlugins, config, selectorObjects,
                  callbacks, observing, pageshowListeners, initCount, connCount,
                  discCount, nCalls, nAppends, nRegistrations, timers >>

addedNodesCallback(mutationList) ==
  /\ \E i \in Instances : observing[i]
  /\ nBatches < MaxBatches
  /\ nBatches' = nBatches + 1
  /\ timers' = timers \o [i \in 1..Len(mutationList) |-> Task(mutationList[i])]
  /\ calls' = [i \in 1..Len(mutationList) |->
                 Event("setTimeout", 0, affected(mutationList[i]))]
  /\ last' = Call("addedNodesCallback", NoInstance, mutationList,
                  windowMrujs # NoInstance /\ connected[windowMrujs], FALSE, Undefined)
  /\ UNCHANGED << windowMrujs, connected, plugins, allPlugins, config, selectorObjects,
                  callbacks, observing, pageshowListeners, initCount, connCount,
                  discCount, nCalls, nAppends, nRegistrations >>

timeout_mut_lifo ==
  /\ timers # <<>>
  /\ windowMrujs # NoInstance
  /\ LET task == timers[Len(timers)]
         all == allPlugins[windowMrujs]
     IN /\ calls' = [i \in 1..Len(all) |->
                       Event("observerCallback", all[i], task.addedNodes)]
        /\ last' = Call("timeout", NoInstance, task.mutation, connected[windowMrujs],
                        FALSE, Undefined)
  /\ timers' = SubSeq(timers, 1, Len(timers) - 1)
  /\ UNCHANGED << windowMrujs, connected, plugins, allPlugins, config, selectorObjects,
                  callbacks, observing, pageshowListeners, initCount, connCount,
                  discCount, nCalls, nAppends, nRegistrations, nBatches >>

timeout_mut_connected ==
  /\ timers # <<>>
  /\ windowMrujs # NoInstance
  /\ LET task == Head(timers)
         all == allPlugins[windowMrujs]
     IN /\ calls' = IF connected[windowMrujs]
                    THEN [i \in 1..Len(all) |->
                            Event("observerCallback", all[i], task.addedNodes)]
                    ELSE <<>>
        /\ last' = Call("timeout", NoInstance, task.mutation, connected[windowMrujs],
                        FALSE, Undefined)
  /\ timers' = Tail(timers)
  /\ UNCHANGED << windowMrujs, connected, plugins, allPlugins, config, selectorObjects,
                  callbacks, observing, pageshowListeners, initCount, connCount,
                  discCount, nCalls, nAppends, nRegistrations, nBatches >>

\* the event loop runs the oldest pending timer task
timeout ==
  /\ timers # <<>>
  /\ windowMrujs # NoInstance
  /\ LET task == Head(timers)
         all == allPlugins[windowMrujs]
     IN /\ calls' = [i \in 1..Len(all) |->
                       Event("observerCallback", all[i], task.addedNodes)]
        /\ last' = Call("timeout", NoInstance, task.mutation, connected[windowMrujs],
                        FALSE, Undefined)
  /\ timers' = Tail(timers)
  /\ UNCHANGED << windowMrujs, connected, plugins, allPlugins, config, selectorObjects,
                  callbacks, observing, pageshowListeners, initCount, connCount,
                  discCount, nCalls, nAppends, nRegistrations, nBatches >>

\* ------------------------------------------------------------- specifications
\* the lifecycle of one instance whose hooks do not throw
Next ==
  \/ \E cfg \in Configs : start(1, cfg, NoFail)
  \/ stop(1, NoFail)
  \/ restart(1, NoFail)
  \/ pageshow

Spec == Init /\ [][Next]_vars

\* configurations that leave the extension list alone
PlainConfigs == { cfg \in Configs : ~cfg.plugins.def }

\* the selector registry of one instance
NextSelectors ==
  \/ \E cfg \in PlainConfigs : start(1, cfg, NoFail)
  \/ stop(1, NoFail)
  \/ \E key \in SelectorKeys, arg \in SelectorArgs : appendToQuerySelector(1, key, arg)
  \/ \E attribute \in Attributes, callback \in Callbacks :
       registerConfirm(1, attribute, callback)

SpecSelectors == Init /\ [][NextSelectors]_vars

\* the mime-type registry of one instance
NextMime ==
  \/ \E cfg \in PlainConfigs : start(1, cfg, NoFail)
  \/ stop(1, NoFail)
  \/ \E mimeTypes \in MimeLists : registerMimeTypes(1, mimeTypes)

SpecMime == Init /\ [][NextMime]_vars

DispatchConfigs ==
  { cfg \in Configs : ~cfg.mimeTypes.def /\ cfg.plugins \in {Undefined, Some(<<1, 1>>)} }

\* the mutation dispatch of one instance
NextDispatch ==
  \/ \E cfg \in DispatchConfigs : start(1, cfg, NoFail)
  \/ stop(1, NoFail)
  \/ \E mutationList \in MutationLists : addedNodesCallback(mutationList)
  \/ timeout

SpecDispatch == Init /\ [][NextDispatch]_vars

\* two instances in one window, each started, stopped and restarted
NextMulti ==
  \/ \E this \in Instances, cfg \in PlainConfigs : start(this, cfg, NoFail)
  \/ \E this \in Instances : stop(this, NoFail)
  \/ \E this \in Instances : restart(this, NoFail)

SpecMulti == Init /\ [][NextMulti]_vars

\* the hooks that may throw: one hook of the plugin at one registry position
FailPositions == {1, 6, 12}
Fails ==
  {NoFail} \cup { [hook |-> h, pos |-> k] :
                    h \in {"initialize", "connect", "disconnect"}, k \in FailPositions }

\* start() without an argument
NoConfigs == { cfg \in PlainConfigs : ~cfg.querySelectors.def }

\* the lifecycle of one instance whose plugins' hooks may throw
NextThrow ==
  \/ \E cfg \in NoConfigs, fail \in Fails : start(1, cfg, fail)
  \/ \E fail \in Fails : stop(1, fail)
  \/ \E fail \in Fails : restart(1, fail)

SpecThrow == Init /\ [][NextThrow]_vars

\* the lifecycle of one instance whose extension list is changed between calls
NextPlugins ==
  \/ \E cfg \in NoConfigs : start(1, cfg, NoFail)
  \/ stop(1, NoFail)
  \/ restart(1, NoFail)
  \/ \E list \in ExtensionLists : setPlugins(1, list)

SpecPlugins == Init /\ [][NextPlugins]_vars

\* ------------------------------------------------------------- properties
Hooks == {"initialize", "connect", "disconnect", "observerCallback"}

\* the hook invocations of the last operation, in order
HookLog(log) == SelectSeq(log, LAMBDA e : e.ev \in Hooks)

Invoked(log, hook) == \E i \in 1..Len(log) : log[i].ev = hook

Occurrences(list, p) == Cardinality({ i \in 1..Len(list) : list[i] = p })

\* one pass of `hook` over the registry `all`, in registry order
Pass(hook, all) == [i \in 1..Len(all) |-> Event(hook, all[i], <<>>)]

\* the step is a call of the operation `op`
IsCall(op) == last'.op = op /\ (nCalls' # nCalls \/ nAppends' # nAppends
                                 \/ nRegistrations' # nRegistrations)

\* C1: start() on a connected instance invokes neither initialize() nor
\* connect() on any plugin, and connected stays true.
C1_DoubleStart ==
  [][(IsCall("start") /\ connected[last'.this]) =>
       /\ connected'[last'.this]
       /\ initCount' = initCount
       /\ connCount' = connCount
       /\ ~Invoked(calls', "initialize")
       /\ ~Invoked(calls', "connect")]_vars

C1_Witness ==
  /\ last.op = "start"
  /\ last.wasConnected
  /\ connected[1]
  /\ \A p \in Range(allPlugins[1]) : initCount[p] >= 1 /\ connCount[p] >= 1

\* C2: initialize() is invoked at most once in total on every plugin, whatever
\* the sequence of start(), stop() and restart() calls (stated for the core
\* plugins, which the registry holds once each).
C2_InitializeAtMostOnce ==
  \A p \in Range(corePlugins(1)) : initCount[p] <= 1

\* C3: while no hook throws, connect() invocations minus disconnect()
\* invocations of every plugin is 1 while connected and 0 while disconnected
\* (stated for the core plugins, which the registry holds once each).
C3_Balanced ==
  \A p \in Range(corePlugins(1)) :
    connCount[p] - discCount[p] = IF connected[1] THEN 1 ELSE 0

\* C4: stop() on an instance that is already disconnected (start, stop, stop)
\* invokes disconnect() on no plugin and leaves connected false.
C4_StopWhenDisconnected ==
  (last.op = "stop" /\ ~last.wasConnected /\ windowMrujs # NoInstance) =>
    (~Invoked(calls, "disconnect") /\ ~connected[windowMrujs])

\* C5 as claimed: restart() after a prior start ends connected, runs one
\* disconnect() pass then one connect() pass, raises every registered
\* plugin's connect count by exactly 1 and never invokes initialize().
C5_RestartCountsByOne ==
  [][(IsCall("restart") /\ windowMrujs # NoInstance) =>
       /\ connected'[windowMrujs]
       /\ HookLog(calls') = Pass("disconnect", allPlugins[windowMrujs])
                              \o Pass("connect", allPlugins[windowMrujs])
       /\ \A p \in Range(allPlugins[windowMrujs]) : connCount'[p] = connCount[p] + 1
       /\ initCount' = initCount]_vars

\* C5 as amended: restart() after a prior start ends connected, runs one
\* disconnect() pass then one connect() pass over the registry, so that every
\* plugin's connect (and disconnect) count rises by the number of times the
\* registry holds it, and never invokes initialize().
C5_Restart ==
  [][(IsCall("restart") /\ windowMrujs # NoInstance) =>
       /\ connected'[windowMrujs]
       /\ HookLog(calls') = Pass("disconnect", allPlugins[windowMrujs])
                              \o Pass("connect", allPlugins[windowMrujs])
       /\ \A p \in Plugins :
            /\ connCount'[p] = connCount[p] + Occurrences(allPlugins[windowMrujs], p)
            /\ discCount'[p] = discCount[p] + Occurrences(allPlugins[windowMrujs], p)
       /\ initCount' = initCount]_vars

C5_Witness ==
  /\ last.op = "restart"
  /\ ~last.wasConnected
  /\ ~last.threw
  /\ connected[1]
  /\ plugins[1] = <<1, 1>>
  /\ connCount[1] = 4

\* C6: after start(config) on a disconnected instance, allPlugins is the 11
\* core plugins in construction order followed by the extension list in
\* effect (config.plugins if supplied, else the list configured before),
\* duplicates kept.
C6_AllPlugins ==
  [][(IsCall("start") /\ ~connected[last'.this]) =>
       LET this == last'.this
           cfg == last'.arg
           ext == IF cfg.plugins.def THEN cfg.plugins.v ELSE config[this].plugins
           all == allPlugins'[this]
       IN /\ Len(all) = 11 + Len(ext)
          /\ SubSeq(all, 1, 11) = corePlugins(this)
          /\ SubSeq(all, 12, Len(all)) = ext
          /\ plugins'[this] = ext]_vars

C6_Witness ==
  /\ last.op = "start"
  /\ ~last.wasConnected
  /\ ~last.arg.plugins.def
  /\ nCalls = 3
  /\ allPlugins[1] = corePlugins(1) \o <<1, 1>>

\* the node list that a mutation record stands for
NodesOf(mutation) ==
  IF mutation.type = "attributes" THEN <<mutation.target>> ELSE mutation.addedNodes

IsCallback == nBatches' = nBatches + 1
IsTimeout == Len(timers') = Len(timers) - 1

\* every record of a delivered batch gets one timer task of its own, queued
\* behind the pending ones in record order
ScheduledPerRecord ==
  IsCallback =>
    LET batch == last'.arg
    IN /\ Len(timers') = Len(timers) + Len(batch)
       /\ SubSeq(timers', 1, Len(timers)) = timers
       /\ \A i \in 1..Len(batch) : timers'[Len(timers) + i].mutation = batch[i]

\* C7 as claimed: one deferred call per mutation record, and when it runs
\* every plugin's observerCallback is invoked exactly once, with [target] for
\* an attribute record and with the inserted nodes in order otherwise.
C7_OncePerPlugin ==
  [][/\ ScheduledPerRecord
     /\ IsTimeout =>
          \A p \in Range(allPlugins[windowMrujs]) :
            Cardinality({ i \in 1..Len(calls') :
                            calls'[i] = Event("observerCallback", p,
                                              NodesOf(Head(timers).mutation)) }) = 1]_vars

\* C7 as amended: one deferred call per mutation record, and when it runs
\* observerCallback is invoked once for every entry of the registry (so twice
\* on a plugin the registry holds twice) and on nothing else, each time with
\* [target] for an attribute record and with the inserted nodes in order
\* otherwise.
C7_Dispatch ==
  [][/\ ScheduledPerRecord
     /\ IsTimeout =>
          /\ Len(calls') = Len(allPlugins[windowMrujs])
          /\ \A i \in 1..Len(calls') :
               calls'[i] = Event("observerCallback", allPlugins[windowMrujs][i],
                                 NodesOf(Head(timers).mutation))]_vars

C7_Witness ==
  /\ last.op = "timeout"
  /\ last.arg = AttributeChange
  /\ Len(calls) = 13
  /\ calls[13] = Event("observerCallback", 1, <<"N">>)
  /\ timers # <<>>
  /\ timers[1].mutation = Insertion

IsAppend == IsCall("appendToQuerySelector") /\ windowMrujs # NoInstance

C9_UnknownKey ==
  [][(IsCall("appendToQuerySelector") /\ last'.arg.key = "doesNotExist") =>
       /\ ~last'.threw
       /\ UNCHANGED << config, selectorObjects, callbacks, plugins, allPlugins,
                       connected >>]_vars

IsRegistration == IsCall("registerMimeTypes") /\ windowMrujs # NoInstance

\* the position of the last entry of `list` for shortcut s, 0 if there is none
LastEntry(list, s) ==
  IF \E i \in 1..Len(list) : list[i].shortcut = s
  THEN CHOOSE i \in 1..Len(list) :
         /\ list[i].shortcut = s
         /\ \A j \in (i + 1)..Len(list) : list[j].shortcut # s
  ELSE 0

C11_Independent ==
  [][(IsCall("stop") \/ IsCall("restart")) =>
       /\ \A b \in Instances \ {last'.this} :
            /\ connected'[b] = connected[b]
            /\ \A p \in Range(corePlugins(b)) :
                 /\ initCount'[p] = initCount[p]
                 /\ connCount'[p] = connCount[p]
                 /\ discCount'[p] = discCount[p]
       /\ (IsCall("stop") /\ ~last'.threw) => ~connected'[last'.this]]_vars

\* what an operation did, step by step, without the arguments of its calls
Steps(log) ==
  [i \in 1..Len(log) |->
     <<log[i].ev, log[i].p, IF log[i].ev = "connected" THEN log[i].arg ELSE <<>>>>]

HookSteps(hook, all) == [i \in 1..Len(all) |-> <<hook, all[i], <<>>>>]

ConnectSteps(all) ==
  << <<"reEnableDisabledElements", 0, <<>>>>, <<"addEventListener", 0, <<>>>> >>
    \o HookSteps("connect", all) \o << <<"connected", 0, <<"true">>>> >>

DisconnectSteps(all) ==
  << <<"removeEventListener", 0, <<>>>> >>
    \o HookSteps("disconnect", all) \o << <<"connected", 0, <<"false">>>> >>

\* C12: connect runs the re-enable sweep, the pageshow subscription, connect()
\* on every plugin in registry order and only then sets connected = true;
\* disconnect unsubscribes, runs disconnect() on every plugin in the same
\* forward order and only then sets connected = false; start() runs every
\* initialize() in registry order before any connect().
C12_ProtocolOrder ==
  LET all == allPlugins[windowMrujs]
  IN /\ (last.op = "start" /\ ~last.wasConnected) =>
          (Steps(calls) = HookSteps("initialize", all) \o ConnectSteps(all)
           /\ connected[windowMrujs])
     /\ (last.op = "stop" /\ ~last.threw) =>
          (Steps(calls) = DisconnectSteps(all) /\ ~connected[windowMrujs])
     /\ (last.op = "restart" /\ ~last.threw) =>
          (Steps(calls) = DisconnectSteps(all) \o ConnectSteps(all)
           /\ connected[windowMrujs])

C12_Witness ==
  /\ last.op = "restart"
  /\ ~last.threw
  /\ allPlugins[1] = corePlugins(1) \o <<2, 1>>
  /\ Len(calls) = 31
  /\ calls[14].ev = "disconnect" /\ calls[14].p = 1
  /\ calls[30].ev = "connect" /\ calls[30].p = 1

\* C13: start(config) on a connected instance returns the instance and leaves
\* its configuration, its extension list and allPlugins as they were, whatever
\* config supplies.
C13_StartConnectedFrame ==
  [][(IsCall("start") /\ connected[last'.this]) =>
       /\ config' = config
       /\ plugins' = plugins
       /\ allPlugins' = allPlugins
       /\ connected' = connected
       /\ last'.ret = Some(last'.this)]_vars

C13_Witness ==
  /\ last.op = "start"
  /\ last.wasConnected
  /\ last.arg.maskLinkMethods = Some(FALSE)
  /\ last.arg.querySelectors = Some(CallerSelectors)
  /\ last.arg.plugins = Some(<<2>>)
  /\ config[1].maskLinkMethods = TRUE
  /\ config[1].querySelectors = BASE_SELECTORS
  /\ plugins[1] = <<1>>
  /\ allPlugins[1] = corePlugins(1) \o <<1>>

\* C14: the mutation-observation callback invokes no observerCallback: it
\* only schedules one timer per record of the batch, and every
\* observerCallback invocation happens in a later timer task.
C14_NeverSynchronous ==
  /\ last.op = "addedNodesCallback" =>
       LET batch == last.arg
           pending == Len(timers) - Len(batch)
       IN /\ ~Invoked(calls, "observerCallback")
          /\ Len(calls) = Len(batch)
          /\ \A i \in 1..Len(calls) : calls[i].ev = "setTimeout"
          /\ pending >= 0
          /\ \A i \in 1..Len(batch) : timers[pending + i].mutation = batch[i]
  /\ Invoked(calls, "observerCallback") => last.op = "timeout"

C14_Witness ==
  /\ last.op = "addedNodesCallback"
  /\ last.arg = <<AttributeChange, Insertion>>
  /\ Len(timers) = 2
  /\ Len(calls) = 2

\* C15: one timer task invokes the plugins in registry order with one node
\* list; the tasks of a batch are queued in record order behind the tasks
\* already pending (also for records that arrive while tasks are pending),
\* and the pending tasks run oldest first.
C15_DispatchOrder ==
  [][/\ IsCallback =>
          /\ Len(timers') = Len(timers) + Len(last'.arg)
          /\ \A i \in 1..Len(timers) : timers'[i] = timers[i]
          /\ \A i \in 1..Len(last'.arg) :
               /\ timers'[Len(timers) + i].mutation = last'.arg[i]
               /\ calls'[i].arg = NodesOf(last'.arg[i])
     /\ IsTimeout =>
          /\ last'.arg = timers[1].mutation
          /\ Len(timers') = Len(timers) - 1
          /\ \A i \in 1..Len(timers') : timers'[i] = timers[i + 1]
          /\ Len(calls') = Len(allPlugins[windowMrujs])
          /\ \A i \in 1..Len(calls') :
               /\ calls'[i].ev = "observerCallback"
               /\ calls'[i].p = allPlugins[windowMrujs][i]
               /\ calls'[i].arg = calls'[1].arg]_vars

C15_Witness ==
  /\ last.op = "addedNodesCallback"
  /\ nBatches = 2
  /\ last.arg = <<AttributeChange, Insertion>>
  /\ Len(timers) = 3
  /\ timers[1].mutation = Removal
  /\ timers[2].mutation = AttributeChange
  /\ timers[3].mutation = Insertion

\* C16: stop() leaves the pending timer tasks in place, and a task run while
\* the instance is disconnected still invokes observerCallback on every
\* plugin of the registry, in one pass over the whole registry.
C16_NoCancellation ==
  [][/\ IsCall("stop") => timers' = timers
     /\ (IsTimeout /\ ~connected[windowMrujs]) =>
          /\ ~connected'[windowMrujs]
          /\ calls' = [i \in 1..Len(allPlugins[windowMrujs]) |->
                         Event("observerCallback", allPlugins[windowMrujs][i],
                               timers[1].addedNodes)]]_vars

C16_Witness ==
  /\ last.op = "timeout"
  /\ ~last.wasConnected
  /\ ~connected[1]
  /\ last.arg = Insertion
  /\ Len(calls) = Len(corePlugins(1)) + 2
  /\ timers # <<>>

\* the step is a lifecycle call in which the pass of the throwing hook runs
\* and reaches the throwing plugin
FailingPass ==
  LET f == last'.arg.fail
      w == windowMrujs'
  IN /\ IsCall("start") \/ IsCall("stop") \/ IsCall("restart")
     /\ w # NoInstance
     /\ f.pos \in 1..Len(allPlugins'[w])
     /\ \/ f.hook = "initialize" /\ IsCall("start") /\ ~last'.wasConnected
        \/ f.hook = "connect" /\ IsCall("start") /\ ~last'.wasConnected
        \/ f.hook = "connect" /\ IsCall("restart")
        \/ f.hook = "disconnect" /\ (IsCall("stop") \/ IsCall("restart"))

OnlyHook(log, hook) == SelectSeq(log, LAMBDA e : e.ev = hook)

CountOf(hook) ==
  CASE hook = "initialize" -> initCount
    [] hook = "connect" -> connCount
    [] hook = "disconnect" -> discCount

CountAfter(hook) ==
  CASE hook = "initialize" -> initCount'
    [] hook = "connect" -> connCount'
    [] hook = "disconnect" -> discCount'

\* C17: a hook that throws at registry position k makes the lifecycle call
\* throw; the hooks at positions 1..k of that pass were invoked and none
\* after k, no later pass ran, nothing done before is undone, and connected
\* keeps the value it had when the failing pass began.
C17_ThrowingHook ==
  [][FailingPass =>
       LET f == last'.arg.fail
           w == windowMrujs'
           all == allPlugins'[w]
       IN /\ last'.threw
          /\ OnlyHook(calls', f.hook) = [i \in 1..f.pos |-> Event(f.hook, all[i], <<>>)]
          /\ \A p \in Plugins :
               CountAfter(f.hook)[p] =
                 CountOf(f.hook)[p] + Occurrences(SubSeq(all, 1, f.pos), p)
          /\ f.hook \in {"initialize", "disconnect"} =>
               /\ ~Invoked(calls', "connect")
               /\ connCount' = connCount
               /\ connected'[w] = connected[w]
          /\ f.hook = "disconnect" =>
               /\ last'.wasConnected => connected'[w]
               /\ pageshowListeners' = {}
          /\ f.hook = "connect" =>
               /\ ~connected'[w]
               /\ pageshowListeners' = {"reEnableDisabledElements"}
               /\ IsCall("restart") => OnlyHook(calls', "disconnect") = Pass("disconnect", all)
               /\ IsCall("start") => OnlyHook(calls', "initialize") = Pass("initialize", all)]_vars

C17_Witness ==
  /\ last.op = "stop"
  /\ last.threw
  /\ last.wasConnected
  /\ last.arg.fail = [hook |-> "disconnect", pos |-> 6]
  /\ connected[1]
  /\ Len(HookLog(calls)) = 6
  /\ pageshowListeners = {}

\* C18: restart() runs its disconnect pass and its connect pass over
\* corePlugins followed by the instance's current extension list.
C18_RestartAppliesChange ==
  [][(IsCall("restart") /\ windowMrujs # NoInstance) =>
       LET all == concat(corePlugins(windowMrujs), plugins[windowMrujs])
       IN /\ OnlyHook(calls', "disconnect") = Pass("disconnect", all)
          /\ OnlyHook(calls', "connect") = Pass("connect", all)]_vars

\* C19: registerConfirm(attribute, callback) appends the anchor selector to
\* the link-click entry and the button selector to the button-click entry,
\* appends callback to the confirm callbacks, and changes no other entry.
C19_RegisterConfirm ==
  [][(IsCall("registerConfirm") /\ windowMrujs # NoInstance) =>
       LET qs == config[windowMrujs].querySelectors
           link == qs["linkClickSelector"]
           button == qs["buttonClickSelector"]
           attribute == last'.arg.attribute
       IN /\ selectorObjects'[link].selector =
               selectorObjects[link].selector \o <<", ">> \o <<"a[", attribute, "]">>
          /\ selectorObjects'[button].selector =
               selectorObjects[button].selector \o <<", ">>
                 \o <<"button[", attribute, "]:not([form])">>
          /\ selectorObjects'[link].exclude = selectorObjects[link].exclude
          /\ selectorObjects'[button].exclude = selectorObjects[button].exclude
          /\ \A x \in SelectorObjects \ {link, button} :
               selectorObjects'[x] = selectorObjects[x]
          /\ callbacks'[windowMrujs] = Append(callbacks[windowMrujs], last'.arg.callback)
          /\ \A i \in Instances \ {windowMrujs} : callbacks'[i] = callbacks[i]]_vars

\* C20: between lifecycle calls the 'pageshow' listener reEnableDisabledElements
\* is subscribed exactly when the instance is connected, and never twice.
C20_ListenerIffConnected ==
  /\ pageshowListeners \subseteq {"reEnableDisabledElements"}
  /\ Cardinality(pageshowListeners) <= 1
  /\ ("reEnableDisabledElements" \in pageshowListeners) <=> connected[1]
  /\ windowMrujs = NoInstance => pageshowListeners = {}

C20_Witness ==
  /\ last.op = "restart"
  /\ ~last.wasConnected
  /\ nCalls = 3
  /\ connected[1]
  /\ pageshowListeners = {"reEnableDisabledElements"}
  /\ discCount[addedNodesObserver(1)] = 2

====
